---- MODULE Spec2Model ----
(***************************************************************************)
(* A model of ark_root_resolver/main.py: the NAAN registry file cache, the *)
(* in-memory registry cache and the resolver map derived from it, the      *)
(* refresh coroutine, the periodic refresh task, the lifespan of the       *)
(* application and the request handlers.                                   *)
(*                                                                         *)
(* Strings are sequences of one-character strings.  A Python dict whose    *)
(* iteration order matters (the resolver map) is a sequence of             *)
(* <<key, value>> pairs with distinct keys; a dict whose order does not    *)
(* matter (a registry snapshot) is a function from its keys.  Time is an   *)
(* integer clock in units of the filename timestamp (one second).          *)
(***************************************************************************)
EXTENDS Integers, Sequences, FiniteSets, TLC

VARIABLES
    now,                    \* the wall clock, datetime.now(timezone.utc)
    files,                  \* DATA_DIR: timestamp of data_<timestamp>.json -> content
    remote,                 \* what the registry URL serves now, or Down
    naan_registry_cache,    \* main.py:22
    ark_root_resolver_map,  \* main.py:25
    lifespan_pc,            \* position of lifespan()
    task,                   \* the periodic task created at main.py:135
    frames,                 \* activations of ensure_up_to_date_naan_registry_cache
    calls,                  \* history: the completed executions of the coroutine
    snap_by,                \* history: the call that last wrote naan_registry_cache
    map_by,                 \* history: the call that last wrote ark_root_resolver_map
    mp,                     \* the last call of match_prefix: input, dictionary, result
    response                \* the last response sent by a request handler

vars == <<now, files, remote, naan_registry_cache, ark_root_resolver_map,
          lifespan_pc, task, frames, calls, snap_by, map_by, mp, response>>

----------------------------------------------------------------------------
(* Bounds of the model *)

\* the refresh interval and freshness bound (86400 s in the source), scaled
Interval == 2
\* the clock stops here
MaxTime == 4
\* the longest resolver map drawn as an input of match_prefix
MaxMapLen == 3
\* the number of executions of the refresh coroutine in one behaviour
MaxCalls == 2
\* the number of direct calls, one after the other, that shows what the
\* fallback leaves of the snapshots published before it
MaxSuccessiveCalls == 3
\* the longest "data" list update_ark_root_resolver_map is applied to on its own
MaxRecs == 3

----------------------------------------------------------------------------
(* Strings *)

Chars == {"1", "2"}

RECURSIVE StrsOfLen(_)
StrsOfLen(n) ==
    IF n = 0 THEN {<<>>}
    ELSE {Append(s, c) : s \in StrsOfLen(n - 1), c \in Chars}

StrsUpTo(n) == UNION {StrsOfLen(k) : k \in 0..n}

\* str.startswith
StartsWith(s, prefix) ==
    /\ Len(prefix) <= Len(s)
    /\ SubSeq(s, 1, Len(prefix)) = prefix

\* str.removeprefix
RemovePrefix(s, prefix) ==
    IF StartsWith(s, prefix) THEN SubSeq(s, Len(prefix) + 1, Len(s)) ELSE s

\* str.removesuffix
RemoveSuffix(s, suffix) ==
    IF /\ Len(suffix) <= Len(s)
       /\ SubSeq(s, Len(s) - Len(suffix) + 1, Len(s)) = suffix
    THEN SubSeq(s, 1, Len(s) - Len(suffix))
    ELSE s

\* the literal "${content}"
ContentPlaceholder == <<"$", "{", "c", "o", "n", "t", "e", "n", "t", "}">>

----------------------------------------------------------------------------
(* Registry records, targets and snapshots *)

K1   == <<"1">>
K2   == <<"2">>
K11  == <<"1", "1">>
K12  == <<"1", "2">>
K21  == <<"2", "1">>
K121 == <<"1", "2", "1">>

Keys == {K1, K2, K11, K12, K21, K121}

T1 == [url |-> <<"a", "/">> \o ContentPlaceholder, http_code |-> 302]
T2 == [url |-> <<"b", "/">>, http_code |-> 301]

Targets == {T1, T2}

Rec(w, t) == [what |-> w, target |-> t]

\* SnapA and SnapB are the bodies the registry URL may serve: SnapB drops
\* every prefix of SnapA and carries one more top-level key.  SnapC is an
\* older body found only in the cache directory
SnapA == [data |-> <<Rec(K1, T1), Rec(K12, T2)>>]
SnapB == [data |-> <<Rec(K2, T1)>>, meta |-> "v2"]
SnapC == [data |-> <<Rec(K1, T2), Rec(K121, T1)>>]

Snapshots == {SnapA, SnapB}

\* a body that is JSON but not an object with keys, such as a string:
\* response.json() and json.dump accept it, dict.update raises on it
NotADict == [not_a_dict |-> TRUE]

\* what response.json() may return
Bodies == Snapshots \cup {NotADict}

\* a cache file that json.load cannot read
Corrupt == [corrupt |-> TRUE]

\* the remote source does not answer, or answers with an error status
Down == [down |-> TRUE]

\* an empty dict
EmptyDict == <<>>

----------------------------------------------------------------------------
(* dict operations *)

\* dict.update on a dict whose order is not modelled
DictUpdate(d, e) ==
    [k \in (DOMAIN d) \cup (DOMAIN e) |-> IF k \in DOMAIN e THEN e[k] ELSE d[k]]

\* naan_registry_cache.update(data) raises
UpdateRaises(data) == data = NotADict

\* the keys of an ordered dict
OKeys(d) == {d[i][1] : i \in DOMAIN d}

\* d[k] = v on an ordered dict: an existing key keeps its place
OSet(d, k, v) ==
    IF k \in OKeys(d)
    THEN [i \in DOMAIN d |-> IF d[i][1] = k THEN <<k, v>> ELSE d[i]]
    ELSE Append(d, <<k, v>>)

\* dict.update on ordered dicts
RECURSIVE OUpdate(_, _)
OUpdate(d, e) ==
    IF e = <<>> THEN d
    ELSE OUpdate(OSet(d, Head(e)[1], Head(e)[2]), Tail(e))

----------------------------------------------------------------------------
(* update_ark_root_resolver_map *)

\* one step of a sort that puts r before the records as long as it
InsertBeforeEqual(acc, r) ==
    LET n == Cardinality({i \in DOMAIN acc : Len(acc[i].what) > Len(r.what)})
    IN  SubSeq(acc, 1, n) \o <<r>> \o SubSeq(acc, n + 1, Len(acc))

\* one step of sorted(..., key=len(what), reverse=True): the sort is stable,
\* so r goes after every record at least as long as it
InsertByLen(acc, r) ==
    LET n == Cardinality({i \in DOMAIN acc : Len(acc[i].what) >= Len(r.what)})
    IN  SubSeq(acc, 1, n) \o <<r>> \o SubSeq(acc, n + 1, Len(acc))

RECURSIVE SortRecords(_, _)
SortRecords(acc, recs) ==
    IF recs = <<>> THEN acc
    ELSE SortRecords(InsertByLen(acc, Head(recs)), Tail(recs))

\* sorted(naan_registry_cache["data"], key=lambda r: len(r["what"]), reverse=True)
SortedByLenDesc(recs) == SortRecords(<<>>, recs)

\* {record["what"]: record["target"] for record in records}
RECURSIVE DictOfRecords(_, _)
DictOfRecords(acc, recs) ==
    IF recs = <<>> THEN acc
    ELSE DictOfRecords(OSet(acc, Head(recs).what, Head(recs).target), Tail(recs))

\* the dict the comprehension of update_ark_root_resolver_map builds
BuildMap(recs) == DictOfRecords(<<>>, SortedByLenDesc(recs))

\* ark_root_resolver_map.update({...}): the value of the map afterwards
UpdatedMap(old, recs) == OUpdate(old, BuildMap(recs))

----------------------------------------------------------------------------
(* match_prefix *)

None == <<>>

\* a scan that stops at the first matching key
FirstMatch(matches) == matches[1]

\* a scan that keeps the last matching key
LastMatch(matches) == matches[Len(matches)]

\* max(matches, key=lambda x: len(x[0])): the first of the longest
MaxByKeyLen(matches) ==
    LET best == {i \in DOMAIN matches :
                    \A j \in DOMAIN matches :
                        Len(matches[j][1]) <= Len(matches[i][1])}
        first == CHOOSE i \in best : \A j \in best : i <= j
    IN  matches[first]

match_prefix(input_string, dictionary) ==
    LET matches == SelectSeq(dictionary,
                             LAMBDA kv : StartsWith(input_string, kv[1]))
    IN  IF matches = <<>> THEN None ELSE MaxByKeyLen(matches)

----------------------------------------------------------------------------
(* The file cache.  Only this process writes DATA_DIR, so the modification  *)
(* time of data_<t>.json is t.                                              *)

\* the result of get_latest_naan_registry_cache_file when there is no file
NoFile == -1

\* max(cache_files, key=lambda p: p.stat().st_mtime) if cache_files else None
get_latest_naan_registry_cache_file(fs) ==
    IF DOMAIN fs = {} THEN NoFile
    ELSE CHOOSE f \in DOMAIN fs : \A g \in DOMAIN fs : g <= f

Exists(fs, cache_file) == cache_file \in DOMAIN fs

\* the age compared the wrong way round
InvertedCacheValid(fs, cache_file, interval_seconds, clock) ==
    IF ~Exists(fs, cache_file) THEN FALSE
    ELSE clock - cache_file > interval_seconds

\* a file whose age equals the interval still counts as valid
CacheValidAtBound(fs, cache_file, interval_seconds, clock) ==
    IF ~Exists(fs, cache_file) THEN FALSE
    ELSE clock - cache_file <= interval_seconds

\* lines 41-44, with datetime.now(timezone.utc).timestamp() = clock
is_cache_valid(fs, cache_file, interval_seconds, clock) ==
    IF ~Exists(fs, cache_file) THEN FALSE
    ELSE clock - cache_file < interval_seconds

\* json.load raises on a file it cannot parse
LoadRaises(fs, cache_file) == fs[cache_file] = Corrupt

load_from_cache(fs, cache_file) == fs[cache_file]

\* the file name embeds the clock, to the second: a second save in the same
\* second opens the same file for writing
save_data_to_cache(fs, data, clock) ==
    [f \in (DOMAIN fs) \cup {clock} |-> IF f = clock THEN data ELSE fs[f]]

----------------------------------------------------------------------------
(* ensure_up_to_date_naan_registry_cache.  The coroutine suspends only at   *)
(* the await of the download; what runs between two suspensions is one      *)
(* step.  Each operator below gives the effect of a stretch of the body as  *)
(* a record: the two dicts and the directory afterwards, whether the        *)
(* coroutine returned or raised, the branch taken, the snapshot it used,    *)
(* and which of the two dicts it wrote.                                     *)

NoSnapshot == [none |-> TRUE]

Effect(cache, map, fs, outcome, path, candidate, wrote_snap, wrote_map) ==
    [cache |-> cache, map |-> map, files |-> fs, outcome |-> outcome,
     path |-> path, candidate |-> candidate,
     wrote_snap |-> wrote_snap, wrote_map |-> wrote_map]

\* lines 98-103: the handler of `except Exception`
ExceptBranch(cache, map, fs, cache_file, wrote_snap) ==
    IF cache_file # NoFile /\ Exists(fs, cache_file)
    THEN IF LoadRaises(fs, cache_file)
         THEN Effect(cache, map, fs, "raised", "fallback", NoSnapshot,
                     wrote_snap, FALSE)
         ELSE IF UpdateRaises(load_from_cache(fs, cache_file))
         THEN Effect(cache, map, fs, "raised", "fallback", NoSnapshot,
                     wrote_snap, FALSE)
         ELSE Effect(DictUpdate(cache, load_from_cache(fs, cache_file)), map, fs,
                     "returned", "fallback", load_from_cache(fs, cache_file),
                     TRUE, FALSE)
    ELSE Effect(cache, map, fs, "returned", "nothing", NoSnapshot,
                wrote_snap, FALSE)

\* lines 94-96, and the handler when the update of naan_registry_cache
\* raises, or update_ark_root_resolver_map raises KeyError for want of a
\* "data" key
Publish(cache, map, fs, cache_file, data, path) ==
    IF UpdateRaises(data)
    THEN ExceptBranch(cache, map, fs, cache_file, FALSE)
    ELSE LET updated == DictUpdate(cache, data)
         IN  IF "data" \in DOMAIN updated
             THEN Effect(updated, UpdatedMap(map, updated.data), fs,
                         "returned", path, data, TRUE, TRUE)
             ELSE ExceptBranch(updated, map, fs, cache_file, TRUE)

\* lines 84-85 and on: the cache file is valid and no download is forced
FromCache(cache, map, fs, cache_file) ==
    IF LoadRaises(fs, cache_file)
    THEN ExceptBranch(cache, map, fs, cache_file, FALSE)
    ELSE Publish(cache, map, fs, cache_file,
                 load_from_cache(fs, cache_file), "cache")

\* lines 88-92 and on, once the download has returned data
Downloaded(cache, map, fs, data, clock) ==
    Publish(cache, map, save_data_to_cache(fs, data, clock), clock, data,
            "download")

\* line 88 raises: the download failed
DownloadFailed(cache, map, fs, cache_file) ==
    ExceptBranch(cache, map, fs, cache_file, FALSE)

----------------------------------------------------------------------------
(* State of the processes *)

\* who awaits the coroutine: lifespan() at line 132, the periodic task at
\* line 112, or a direct caller that passes its own force_download
Callers == {"lifespan", "periodic", "direct"}

IdleFrame == [pc |-> "idle", cache_file |-> NoFile, id |-> 0]

NoTask == [st |-> "none", wake |-> 0, cancel |-> FALSE, created |-> 0]

\* a loop that refreshes first and sleeps afterwards
TaskRefreshingAtOnce ==
    [st |-> "sleeping", wake |-> now, cancel |-> FALSE, created |-> now]

\* asyncio.create_task(...): the task runs to its first await, the sleep
NewTask ==
    [st |-> "sleeping", wake |-> now + Interval, cancel |-> FALSE,
     created |-> now]

NoResponse ==
    [handler |-> "none", request |-> <<>>, status |-> 0, location |-> <<>>,
     body |-> EmptyDict]

NoMatchCall == [input |-> <<>>, dictionary |-> <<>>, result |-> None]

\* the cache directories a process may find when it starts
InitialDirs ==
    { <<>>,
      (0 :> SnapA),
      (0 :> Corrupt),
      (0 :> SnapC) @@ (1 :> Corrupt) }

Init ==
    /\ now = 1
    /\ files \in InitialDirs
    /\ remote \in {Down} \cup Bodies
    /\ naan_registry_cache = EmptyDict
    /\ ark_root_resolver_map = <<>>
    /\ lifespan_pc = "init"
    /\ task = NoTask
    /\ frames = [c \in Callers |-> IdleFrame]
    /\ calls = <<>>
    /\ snap_by = 0
    /\ map_by = 0
    /\ mp = NoMatchCall
    /\ response = NoResponse

----------------------------------------------------------------------------
(* The environment *)

Tick ==
    /\ now < MaxTime
    /\ now' = now + 1
    /\ UNCHANGED <<files, remote, naan_registry_cache, ark_root_resolver_map,
                   lifespan_pc, task, frames, calls, snap_by, map_by, mp,
                   response>>

RemoteChange ==
    /\ remote' \in ({Down} \cup Bodies) \ {remote}
    /\ UNCHANGED <<now, files, naan_registry_cache, ark_root_resolver_map,
                   lifespan_pc, task, frames, calls, snap_by, map_by, mp,
                   response>>

----------------------------------------------------------------------------
(* Executions of ensure_up_to_date_naan_registry_cache *)

\* the history record of an execution that has just begun
CallRecord(c, force, cache_file, valid) ==
    [caller |-> c, force |-> force, begin |-> now, latest |-> cache_file,
     valid |-> valid, fetched |-> FALSE, outcome |-> "running",
     path |-> "none", candidate |-> NoSnapshot, remote_up |-> remote # Down,
     files_before |-> files,
     cache_before |-> naan_registry_cache, map_before |-> ark_root_resolver_map,
     cache_after |-> naan_registry_cache, map_after |-> ark_root_resolver_map]

\* a lifespan() that creates the periodic task before the startup refresh
\* has returned
TaskCreatedBeforeRefresh(c) ==
    /\ lifespan_pc' = IF c = "lifespan" THEN "starting" ELSE lifespan_pc
    /\ task' = IF c = "periodic" THEN [task EXCEPT !.st = "refreshing"]
               ELSE IF c = "lifespan" THEN NewTask ELSE task

\* the caller while the coroutine it awaits is suspended in the download
Suspended(c) ==
    /\ lifespan_pc' = IF c = "lifespan" THEN "starting" ELSE lifespan_pc
    /\ task' = IF c = "periodic" THEN [task EXCEPT !.st = "refreshing"] ELSE task

\* the caller once the coroutine has returned or raised: lifespan() creates
\* the task and yields, or the exception leaves it (lines 132-137); the
\* periodic loop sleeps again, or the exception ends the task (lines 110-112)
Resumed(c, outcome) ==
    /\ lifespan_pc' =
          IF c = "lifespan"
          THEN (IF outcome = "returned" THEN "serving" ELSE "failed")
          ELSE lifespan_pc
    /\ task' =
          IF c = "lifespan"
          THEN (IF outcome = "returned" THEN NewTask ELSE task)
          ELSE IF c = "periodic"
          THEN (IF outcome = "returned"
                THEN [task EXCEPT !.st = "sleeping", !.wake = now + Interval]
                ELSE [task EXCEPT !.st = "failed"])
          ELSE task

\* the execution with record calls_[id] ends with effect e
Finish(c, id, calls_, e) ==
    /\ naan_registry_cache' = e.cache
    /\ ark_root_resolver_map' = e.map
    /\ files' = e.files
    /\ snap_by' = IF e.wrote_snap THEN id ELSE snap_by
    /\ map_by' = IF e.wrote_map THEN id ELSE map_by
    /\ calls' = [calls_ EXCEPT ![id] =
                    [@ EXCEPT !.outcome = e.outcome, !.path = e.path,
                              !.candidate = e.candidate,
                              !.remote_up = remote # Down,
                              !.cache_after = e.cache, !.map_after = e.map]]
    /\ frames' = [frames EXCEPT ![c] = IdleFrame]
    /\ Resumed(c, e.outcome)

\* lines 76-88: up to the return from the cache branch, or to the await
Begin(c, force_download) ==
    /\ frames[c].pc = "idle"
    /\ LET cache_file == get_latest_naan_registry_cache_file(files)
           valid == is_cache_valid(files, cache_file, Interval, now)
           id == Len(calls) + 1
           rec == CallRecord(c, force_download, cache_file, valid)
       IN  IF ~force_download /\ cache_file # NoFile /\ valid
           THEN Finish(c, id, Append(calls, rec),
                       FromCache(naan_registry_cache, ark_root_resolver_map,
                                 files, cache_file))
           ELSE /\ frames' = [frames EXCEPT ![c] =
                                 [pc |-> "fetching", cache_file |-> cache_file,
                                  id |-> id]]
                /\ calls' = Append(calls, [rec EXCEPT !.fetched = TRUE])
                /\ Suspended(c)
                /\ UNCHANGED <<files, naan_registry_cache,
                               ark_root_resolver_map, snap_by, map_by>>
    /\ UNCHANGED <<now, remote, mp, response>>

\* the task of caller c has been cancelled and has not yet run again
CancelPending(c) == c = "periodic" /\ task.cancel

\* line 88 returns the body the remote serves
FetchReturn(c) ==
    /\ frames[c].pc = "fetching"
    /\ ~CancelPending(c)
    /\ remote # Down
    /\ Finish(c, frames[c].id, calls,
              Downloaded(naan_registry_cache, ark_root_resolver_map, files,
                         remote, now))
    /\ UNCHANGED <<now, remote, mp, response>>

\* line 88 raises
FetchRaise(c) ==
    /\ frames[c].pc = "fetching"
    /\ ~CancelPending(c)
    /\ remote = Down
    /\ Finish(c, frames[c].id, calls,
              DownloadFailed(naan_registry_cache, ark_root_resolver_map, files,
                             frames[c].cache_file))
    /\ UNCHANGED <<now, remote, mp, response>>

----------------------------------------------------------------------------
(* lifespan and the periodic task *)

\* line 132: the startup refresh, with the default arguments
LifespanStart ==
    /\ lifespan_pc = "init"
    /\ Len(calls) < MaxCalls
    /\ Begin("lifespan", FALSE)

\* a loop that goes on to the next refresh although it has been cancelled
TaskWakeIgnoringCancel ==
    /\ task.st = "sleeping"
    /\ now >= task.wake
    /\ Len(calls) < MaxCalls
    /\ Begin("periodic", FALSE)

\* lines 111-112: the sleep is over, the loop awaits the next refresh
TaskWake ==
    /\ task.st = "sleeping"
    /\ ~task.cancel
    /\ now >= task.wake
    /\ Len(calls) < MaxCalls
    /\ Begin("periodic", FALSE)

\* lines 140-142: task.cancel(), then await task.  Awaiting a task that an
\* exception has already ended raises that exception at once
Shutdown ==
    /\ lifespan_pc = "serving"
    /\ IF task.st = "failed"
       THEN lifespan_pc' = "shutdown_error" /\ task' = task
       ELSE lifespan_pc' = "stopping" /\ task' = [task EXCEPT !.cancel = TRUE]
    /\ UNCHANGED <<now, files, remote, naan_registry_cache,
                   ark_root_resolver_map, frames, calls, snap_by, map_by, mp,
                   response>>

\* a coroutine whose `except` catches the cancellation like a failed download
TaskCancelledAsFailure ==
    /\ task.cancel
    /\ task.st \in {"sleeping", "refreshing"}
    /\ IF task.st = "refreshing"
       THEN /\ Finish("periodic", frames["periodic"].id, calls,
                      DownloadFailed(naan_registry_cache, ark_root_resolver_map,
                                     files, frames["periodic"].cache_file))
       ELSE /\ task' = [task EXCEPT !.st = "cancelled"]
            /\ UNCHANGED <<files, naan_registry_cache, ark_root_resolver_map,
                           lifespan_pc, frames, calls, snap_by, map_by>>
    /\ UNCHANGED <<now, remote, mp, response>>

\* the event loop throws CancelledError into the task where it is suspended:
\* in the sleep, or in the download, where `except Exception` does not
\* catch it
TaskCancelled ==
    /\ task.cancel
    /\ task.st \in {"sleeping", "refreshing"}
    /\ task' = [task EXCEPT !.st = "cancelled"]
    /\ IF task.st = "refreshing"
       THEN /\ frames' = [frames EXCEPT !["periodic"] = IdleFrame]
            /\ calls' = [calls EXCEPT ![frames["periodic"].id].outcome =
                                          "cancelled"]
       ELSE UNCHANGED <<frames, calls>>
    /\ UNCHANGED <<now, files, remote, naan_registry_cache,
                   ark_root_resolver_map, lifespan_pc, snap_by, map_by, mp,
                   response>>

\* lines 142-144: the awaited task has ended with CancelledError
LifespanExit ==
    /\ lifespan_pc = "stopping"
    /\ task.st = "cancelled"
    /\ lifespan_pc' = "stopped"
    /\ UNCHANGED <<now, files, remote, naan_registry_cache,
                   ark_root_resolver_map, task, frames, calls, snap_by, map_by,
                   mp, response>>

----------------------------------------------------------------------------
(* Request handlers: the application serves between the yield of lifespan  *)
(* and its shutdown                                                        *)

Slash == <<"/">>

\* the raw path parameters of the requests
RawIdentifiers ==
    { K121, Slash \o K21, Slash \o Slash \o K1 }

Serving == lifespan_pc = "serving"

GetNaanRegistryCache ==
    /\ Serving
    /\ response' = [NoResponse EXCEPT !.handler = "get_naan_registry_cache",
                                      !.status = 200,
                                      !.body = naan_registry_cache]
    /\ UNCHANGED <<now, files, remote, naan_registry_cache,
                   ark_root_resolver_map, lifespan_pc, task, frames, calls,
                   snap_by, map_by, mp>>

GetArkRootResolverMap ==
    /\ Serving
    /\ response' = [NoResponse EXCEPT !.handler = "get_ark_root_resolver_map",
                                      !.status = 200,
                                      !.body = ark_root_resolver_map]
    /\ UNCHANGED <<now, files, remote, naan_registry_cache,
                   ark_root_resolver_map, lifespan_pc, task, frames, calls,
                   snap_by, map_by, mp>>

\* a handler that strips every leading slash, as str.lstrip("/") does
RECURSIVE StripAllSlashes(_)
StripAllSlashes(identifier) ==
    IF StartsWith(identifier, Slash) THEN StripAllSlashes(Tail(identifier))
    ELSE identifier

\* lines 165-167
StripLeadingSlash(identifier) ==
    IF StartsWith(identifier, Slash) THEN RemovePrefix(identifier, Slash)
    ELSE identifier

\* lines 168-174.  Unpacking the None that match_prefix returns raises
\* TypeError, which the server answers with status 500
ArkResponse(raw, dictionary) ==
    LET identifier == StripLeadingSlash(raw)
        found == match_prefix(identifier, dictionary)
    IN  IF found = None
        THEN [NoResponse EXCEPT !.handler = "handle_ark", !.request = raw,
                                !.status = 500]
        ELSE [NoResponse EXCEPT
                !.handler = "handle_ark", !.request = raw,
                !.status = found[2].http_code,
                !.location = RemoveSuffix(found[2].url, ContentPlaceholder)
                                \o identifier]

MatchCall(input_string, dictionary) ==
    [input |-> input_string, dictionary |-> dictionary,
     result |-> match_prefix(input_string, dictionary)]

HandleArk(raw) ==
    /\ Serving
    /\ mp' = MatchCall(StripLeadingSlash(raw), ark_root_resolver_map)
    /\ response' = ArkResponse(raw, ark_root_resolver_map)
    /\ UNCHANGED <<now, files, remote, naan_registry_cache,
                   ark_root_resolver_map, lifespan_pc, task, frames, calls,
                   snap_by, map_by>>

----------------------------------------------------------------------------
(* The application *)

Next ==
    \/ Tick
    \/ RemoteChange
    \/ LifespanStart
    \/ \E c \in {"lifespan", "periodic"} : FetchReturn(c)
    \/ \E c \in {"lifespan", "periodic"} : FetchRaise(c)
    \/ TaskWake
    \/ Shutdown
    \/ TaskCancelled
    \/ LifespanExit
    \/ GetNaanRegistryCache
    \/ GetArkRootResolverMap
    \/ \E raw \in RawIdentifiers : HandleArk(raw)

Spec == Init /\ [][Next]_vars

\* The event loop runs every callback that is ready: a cancelled task is
\* resumed with CancelledError, and lifespan() is resumed once the task it
\* awaits is done.  Nothing obliges the clock, the remote source or the
\* clients to act.
FairSpec == Spec /\ WF_vars(TaskCancelled) /\ WF_vars(LifespanExit)

----------------------------------------------------------------------------
(* The refresh coroutine called directly, one call after the other, with   *)
(* either value of force_download                                          *)

DirectCall(force_download) ==
    /\ lifespan_pc = "init"
    /\ Len(calls) < MaxCalls
    /\ Begin("direct", force_download)

NextCall ==
    \/ Tick
    \/ RemoteChange
    \/ \E force_download \in BOOLEAN : DirectCall(force_download)
    \/ FetchReturn("direct")
    \/ FetchRaise("direct")

SpecCall == Init /\ [][NextCall]_vars

\* the same, for up to MaxSuccessiveCalls calls
SuccessiveCall(force_download) ==
    /\ lifespan_pc = "init"
    /\ Len(calls) < MaxSuccessiveCalls
    /\ Begin("direct", force_download)

NextSuccessive ==
    \/ Tick
    \/ RemoteChange
    \/ \E force_download \in BOOLEAN : SuccessiveCall(force_download)
    \/ FetchReturn("direct")
    \/ FetchRaise("direct")

SpecSuccessive == Init /\ [][NextSuccessive]_vars

----------------------------------------------------------------------------
(* match_prefix applied to every resolver map of up to MaxMapLen keys and  *)
(* every identifier one character longer than the longest key              *)

RECURSIVE MapsOfLen(_)
MapsOfLen(n) ==
    IF n = 0 THEN {<<>>}
    ELSE UNION { {Append(m, <<k, t>>) : k \in Keys \ OKeys(m), t \in Targets}
                 : m \in MapsOfLen(n - 1) }

AllMaps == UNION {MapsOfLen(n) : n \in 0..MaxMapLen}

LongestKey == CHOOSE n \in {Len(k) : k \in Keys} : \A k \in Keys : Len(k) <= n

Identifiers == StrsUpTo(LongestKey + 1)

InitMatch ==
    /\ now = 1
    /\ files = <<>>
    /\ remote = Down
    /\ naan_registry_cache = EmptyDict
    /\ ark_root_resolver_map \in AllMaps
    /\ lifespan_pc = "init"
    /\ task = NoTask
    /\ frames = [c \in Callers |-> IdleFrame]
    /\ calls = <<>>
    /\ snap_by = 0
    /\ map_by = 0
    /\ mp = NoMatchCall
    /\ response = NoResponse

MatchPrefixCall(input_string) ==
    /\ mp' = MatchCall(input_string, ark_root_resolver_map)
    /\ UNCHANGED <<now, files, remote, naan_registry_cache,
                   ark_root_resolver_map, lifespan_pc, task, frames, calls,
                   snap_by, map_by, response>>

NextMatch == \E input_string \in Identifiers : MatchPrefixCall(input_string)

SpecMatch == InitMatch /\ [][NextMatch]_vars

----------------------------------------------------------------------------
(* update_ark_root_resolver_map applied once to every "data" list of up to *)
(* MaxRecs records, duplicates included, on an empty and on a filled map   *)

Records == {Rec(w, t) : w \in Keys, t \in Targets}

InitBuild ==
    /\ now = 1
    /\ files = <<>>
    /\ remote = Down
    /\ \E n \in 0..MaxRecs : \E recs \in [1..n -> Records] :
          naan_registry_cache = [data |-> recs]
    /\ ark_root_resolver_map \in {<<>>, BuildMap(SnapC.data)}
    /\ lifespan_pc = "init"
    /\ task = NoTask
    /\ frames = [c \in Callers |-> IdleFrame]
    /\ calls = <<>>
    /\ snap_by = 0
    /\ map_by = 0
    /\ mp = NoMatchCall
    /\ response = NoResponse

update_ark_root_resolver_map ==
    /\ map_by = 0
    /\ ark_root_resolver_map' =
          UpdatedMap(ark_root_resolver_map, naan_registry_cache.data)
    /\ map_by' = 1
    /\ UNCHANGED <<now, files, remote, naan_registry_cache, lifespan_pc, task,
                   frames, calls, snap_by, mp, response>>

NextBuild == update_ark_root_resolver_map

SpecBuild == InitBuild /\ [][NextBuild]_vars

----------------------------------------------------------------------------
(* Properties *)

\* an execution of the refresh coroutine that has returned or raised
Ended(call) == call.outcome \in {"returned", "raised"}

\* the download of the execution was attempted and failed
FetchFailed(call) == Ended(call) /\ call.fetched /\ ~call.remote_up

\* the keys a snapshot registers
WhatsOf(snapshot) == {snapshot.data[i].what : i \in DOMAIN snapshot.data}

\* C1: when match_prefix succeeds with key k, the input starts with k and no
\* key of the dictionary longer than k is a prefix of the input
C1_LongestPrefix ==
    mp.result # None =>
        /\ StartsWith(mp.input, mp.result[1])
        /\ \E i \in DOMAIN mp.dictionary : mp.dictionary[i] = mp.result
        /\ \A i \in DOMAIN mp.dictionary :
              Len(mp.dictionary[i][1]) > Len(mp.result[1])
                  => ~StartsWith(mp.input, mp.dictionary[i][1])

\* three registered prefixes of the input, the longest neither first nor last
C1_Witness ==
    /\ mp.dictionary = << <<K1, T1>>, <<K121, T2>>, <<K12, T1>> >>
    /\ mp.input = K121 \o K2
    /\ mp.result = <<K121, T2>>

\* C2: a request for an identifier that no key of the published map prefixes
\* is answered with status 404
C2_NoMatchIs404 ==
    (response.handler = "handle_ark" /\ mp.result = None)
        => response.status = 404

\* C3: when the latest cache file is older than the interval and loadable and
\* the download fails, the coroutine returns and the resolver map afterwards
\* is the map built from that file
C3_StaleFallbackPublishesMap ==
    \A i \in DOMAIN calls :
        LET call == calls[i] IN
        (/\ FetchFailed(call)
         /\ call.latest # NoFile
         /\ ~(call.begin - call.latest < Interval)
         /\ call.files_before[call.latest] # Corrupt)
        => /\ call.outcome = "returned"
           /\ call.map_after = BuildMap(call.files_before[call.latest].data)

\* C4: when the startup refresh finds no cache file and its download fails,
\* the refresh raises and the application does not start
C4_FatalStartup ==
    (/\ calls # <<>>
     /\ calls[1].caller = "lifespan"
     /\ calls[1].latest = NoFile
     /\ FetchFailed(calls[1]))
    => (calls[1].outcome = "raised" /\ lifespan_pc = "failed")

\* C5: after a refresh that publishes snapshot S, the keys of the resolver
\* map are the `what` values of S and the map is the one built from S alone
C5_FullReplace ==
    \A i \in DOMAIN calls :
        LET call == calls[i] IN
        (call.outcome = "returned" /\ call.path \in {"cache", "download"})
        => /\ OKeys(call.map_after) = WhatsOf(call.candidate)
           /\ call.map_after = BuildMap(call.candidate.data)

\* C6: while requests are served, the published snapshot and the published
\* resolver map were written by the same refresh
C6_AtomicPublication == Serving => snap_by = map_by

\* C7 as stated: of two successive calls without force_download, the second
\* within the interval of the first, the second does not fetch and leaves
\* the published snapshot and map as the first left them
C7_IdempotentWithinInterval ==
    \A i \in DOMAIN calls :
        (/\ i + 1 \in DOMAIN calls
         /\ Ended(calls[i]) /\ Ended(calls[i + 1])
         /\ ~calls[i].force /\ ~calls[i + 1].force
         /\ calls[i + 1].begin - calls[i].begin < Interval)
        => /\ ~calls[i + 1].fetched
           /\ calls[i + 1].cache_after = calls[i].cache_after
           /\ calls[i + 1].map_after = calls[i].map_after

\* C7 amended: of two successive calls without force_download, the second
\* within the interval of the first and begun while the latest cache file is
\* younger than the interval, the second does not fetch and leaves the
\* published snapshot and map as the first left them
C7_IdempotentWhileFresh ==
    \A i \in DOMAIN calls :
        (/\ i + 1 \in DOMAIN calls
         /\ Ended(calls[i]) /\ Ended(calls[i + 1])
         /\ ~calls[i].force /\ ~calls[i + 1].force
         /\ calls[i + 1].begin - calls[i].begin < Interval
         /\ calls[i + 1].latest # NoFile
         /\ calls[i + 1].begin - calls[i + 1].latest < Interval)
        => /\ ~calls[i + 1].fetched
           /\ calls[i + 1].cache_after = calls[i].cache_after
           /\ calls[i + 1].map_after = calls[i].map_after

\* the first call downloaded and saved a snapshot, the second, later but
\* within the interval, loaded it from the cache
C7_Witness ==
    /\ Len(calls) >= 2
    /\ ~calls[1].force /\ ~calls[2].force
    /\ calls[1].path = "download" /\ calls[1].outcome = "returned"
    /\ calls[2].path = "cache" /\ calls[2].outcome = "returned"
    /\ calls[2].begin > calls[1].begin
    /\ calls[2].begin - calls[1].begin < Interval
    /\ calls[2].map_after # <<>>

\* C8: at most one execution of the refresh coroutine is in progress
C8_SingleFlight ==
    Cardinality({c \in Callers : frames[c].pc # "idle"}) <= 1

\* the periodic task is in the middle of a download, after the startup
\* refresh has downloaded too
C8_Witness ==
    /\ frames["periodic"].pc = "fetching"
    /\ calls[1].caller = "lifespan" /\ calls[1].path = "download"

\* C9: once the periodic task is cancelled it ends, in the sleep or in the
\* middle of a refresh and whether or not the clock advances; from the
\* cancellation on no refresh begins and the ended task stays ended; and
\* lifespan() finishes its shutdown only after the task has ended
C9_CancellationEndsLoop ==
    /\ (task.cancel ~> task.st = "cancelled")
    /\ [][task.cancel => Len(calls') = Len(calls)]_vars
    /\ [][task.st = "cancelled" => task'.st = "cancelled"]_vars
    /\ [](lifespan_pc = "stopped" => task.st = "cancelled")

\* the shutdown is complete and the task was cancelled in the middle of a
\* refresh
C9_Witness ==
    /\ lifespan_pc = "stopped"
    /\ \E i \in DOMAIN calls :
          calls[i].caller = "periodic" /\ calls[i].outcome = "cancelled"

\* C10: when the remote source would answer, or some cache file is loadable,
\* the coroutine returns with a snapshot published
C10_FailsOnlyWithoutData ==
    \A i \in DOMAIN calls :
        LET call == calls[i] IN
        (/\ Ended(call)
         /\ \/ call.remote_up
            \/ \E f \in DOMAIN call.files_before :
                  call.files_before[f] # Corrupt)
        => (call.outcome = "returned" /\ call.candidate # NoSnapshot)

\* C11: for a request whose identifier matches, the identifier matched is the
\* raw one less at most one leading "/", the redirect goes to the target's
\* url, less a trailing "${content}", followed by that whole identifier, and
\* the status is the target's http_code
C11_RedirectConstruction ==
    (response.handler = "handle_ark" /\ mp.result # None) =>
        LET raw == response.request
            stripped == IF raw # <<>> /\ raw[1] = "/" THEN Tail(raw) ELSE raw
            url == mp.result[2].url
            n == Len(ContentPlaceholder)
            templated == /\ Len(url) >= n
                         /\ \A i \in 1..n :
                               url[Len(url) - n + i] = ContentPlaceholder[i]
            base == IF templated THEN SubSeq(url, 1, Len(url) - n) ELSE url
        IN  /\ mp.input = stripped
            /\ response.location = base \o stripped
            /\ response.status = mp.result[2].http_code

\* "/21" matched on the key "2", whose url ends with the placeholder: the
\* redirect carries the whole identifier "21", not the remainder "1"
C11_Witness ==
    /\ response.handler = "handle_ark"
    /\ response.request = Slash \o K21
    /\ mp.result = <<K2, T1>>
    /\ response.location = <<"a", "/">> \o K21
    /\ response.status = 302

\* the order of the characters of a key
AlphabetOrder == <<"1", "2">>

Rank(c) == CHOOSE i \in DOMAIN AlphabetOrder : AlphabetOrder[i] = c

\* a is lexicographically at most b
LexLeq(a, b) ==
    \/ StartsWith(b, a)
    \/ \E i \in 1..Len(a) :
          /\ i <= Len(b)
          /\ SubSeq(a, 1, i - 1) = SubSeq(b, 1, i - 1)
          /\ Rank(a[i]) < Rank(b[i])

\* the dictionary with the entries at j and j + 1 exchanged
SwapAt(d, j) ==
    [i \in DOMAIN d |-> IF i = j THEN d[j + 1] ELSE IF i = j + 1 THEN d[j]
                        ELSE d[i]]

\* C12: the keys of maximal length among those the input starts with are a
\* single key, which match_prefix returns (so it is the lexicographically
\* smallest of them), and exchanging two neighbours in the order of the
\* dictionary does not change the result
C12_Deterministic ==
    LET matching == {k \in OKeys(mp.dictionary) : StartsWith(mp.input, k)}
        longest == {k \in matching : \A k2 \in matching : Len(k2) <= Len(k)}
    IN  /\ mp.result # None =>
              /\ mp.result[1] \in longest
              /\ Cardinality(longest) = 1
              /\ \A k \in longest : LexLeq(mp.result[1], k)
        /\ mp.result = None => matching = {}
        /\ \A j \in 1..(Len(mp.dictionary) - 1) :
              match_prefix(mp.input, SwapAt(mp.dictionary, j)) = mp.result

\* two keys match, the longer one is first in the dictionary and a key that
\* does not match is last
C12_Witness ==
    /\ mp.dictionary = << <<K12, T2>>, <<K1, T1>>, <<K11, T1>> >>
    /\ mp.input = K121
    /\ mp.result = <<K12, T2>>

\* C13: every step that saves raises the number of cache files by one and
\* leaves the content of every file that was there unchanged
C13_SaveNeverOverwrites ==
    [][files' # files =>
          /\ Cardinality(DOMAIN files') = Cardinality(DOMAIN files) + 1
          /\ \A f \in DOMAIN files : files'[f] = files[f]]_vars

\* C14: once the map has been built from a snapshot, each `what` of the
\* snapshot is a key of the map exactly once, with the target of the last
\* record of the snapshot that has this `what`
C14_LastDuplicateWins ==
    map_by = 1 =>
        LET data == naan_registry_cache.data
        IN  \A i \in DOMAIN data :
              LET same == {j \in DOMAIN data : data[j].what = data[i].what}
                  last == CHOOSE j \in same : \A k \in same : k <= j
                  at == {m \in DOMAIN ark_root_resolver_map :
                            ark_root_resolver_map[m][1] = data[i].what}
              IN  /\ Cardinality(at) = 1
                  /\ \A m \in at :
                        ark_root_resolver_map[m][2] = data[last].target

\* a key occurs twice with different targets, a longer key between the two
C14_Witness ==
    /\ map_by = 1
    /\ naan_registry_cache.data = <<Rec(K1, T1), Rec(K12, T1), Rec(K1, T2)>>
    /\ ark_root_resolver_map = << <<K12, T1>>, <<K1, T2>> >>

\* C15: no periodic refresh ends the periodic task with an exception
C15_LoopSurvivesFailures == task.st # "failed"

\* every call so far skipped the fetch exactly when there was a latest cache
\* file, no download was forced and the file was younger than the interval
UsedCacheIffFresh ==
    \A i \in DOMAIN calls :
        ~calls[i].fetched <=>
            /\ calls[i].latest # NoFile
            /\ ~calls[i].force
            /\ calls[i].begin - calls[i].latest < Interval

\* C16: a call uses the latest cache file without a fetch exactly when there
\* is one, force_download is false and its age is less than the interval;
\* and when the fetch of a call returns a well-formed snapshot, the step
\* writes it to a file that did not exist and publishes it
C16_CacheOrFetch ==
    /\ []UsedCacheIffFresh
    /\ [][\A c \in Callers :
             (/\ frames[c].pc = "fetching"
              /\ frames'[c].pc = "idle"
              /\ calls'[frames[c].id].outcome # "cancelled"
              /\ remote \in Snapshots) =>
                 /\ now \notin DOMAIN files
                 /\ DOMAIN files' = DOMAIN files \cup {now}
                 /\ files'[now] = remote
                 /\ naan_registry_cache' = remote]_vars

\* C17: every refresh begun by the periodic task finds no valid cache file
\* and awaits a download; none of them takes the branch that loads the cache
C17_PeriodicAlwaysFetches ==
    \A i \in DOMAIN calls :
        calls[i].caller = "periodic" =>
            /\ ~calls[i].valid
            /\ calls[i].fetched
            /\ calls[i].path # "cache"

\* a periodic refresh that begins when the latest file is exactly one
\* interval old
C17_Witness ==
    \E i \in DOMAIN calls :
        /\ calls[i].caller = "periodic"
        /\ calls[i].latest # NoFile
        /\ calls[i].begin - calls[i].latest = Interval
        /\ calls[i].fetched
        /\ Ended(calls[i])

\* the step in which the download of a call raises leaves the cache files as
\* they are, and the fallback reads the file that was the latest when the
\* call began
FailedFetchKeepsFiles ==
    [][\A c \in Callers :
          (/\ frames[c].pc = "fetching"
           /\ frames'[c].pc = "idle"
           /\ calls'[frames[c].id].outcome # "cancelled"
           /\ remote = Down) =>
              LET call == calls'[frames[c].id]
              IN  /\ files' = files
                  /\ (call.outcome = "returned" /\ call.path = "fallback") =>
                        call.candidate = call.files_before[call.latest]]_vars

\* C18: the step in which the download of a call raises leaves the cache
\* files as they are, and if the call then returns from the fallback, the
\* snapshot published is the content of the file that was the latest when
\* the call began
C18_FailedFetchFrame ==
    /\ FailedFetchKeepsFiles
    /\ [][\A c \in Callers :
             (/\ frames[c].pc = "fetching"
              /\ frames'[c].pc = "idle"
              /\ remote = Down) =>
                 LET call == calls'[frames[c].id]
                 IN  (call.outcome = "returned" /\ call.path = "fallback") =>
                        naan_registry_cache' =
                            call.files_before[call.latest]]_vars

\* C19: the step that ends a refresh of the cancelled periodic task in its
\* download leaves the published snapshot, the resolver map and the cache
\* files as they were when that refresh began, and the refresh ends without
\* having taken the fallback
C19_CancelDuringFetch ==
    [][(/\ task.cancel
        /\ frames["periodic"].pc = "fetching"
        /\ frames'["periodic"].pc = "idle") =>
           LET id == frames["periodic"].id
           IN  /\ naan_registry_cache' = calls[id].cache_before
               /\ ark_root_resolver_map' = calls[id].map_before
               /\ files' = calls[id].files_before
               /\ snap_by' = snap_by
               /\ calls'[id].outcome = "cancelled"
               /\ calls'[id].path = "none"
               /\ calls'[id].candidate = NoSnapshot]_vars

\* a refresh was cancelled in its download while the remote was down, a
\* cache file to fall back to existed and a snapshot was published
C19_Witness ==
    \E i \in DOMAIN calls :
        /\ calls[i].outcome = "cancelled"
        /\ remote = Down
        /\ calls[i].latest # NoFile
        /\ naan_registry_cache = calls[i].cache_before
        /\ naan_registry_cache # EmptyDict

\* C20: when the periodic task exists or a request has been handled, the
\* first execution of the refresh is the one lifespan() awaited and it has
\* returned; and every refresh of the periodic task begins at least one
\* interval after the task was created
C20_StartupOrdering ==
    /\ (task.st # "none" \/ response.handler # "none") =>
          /\ calls # <<>>
          /\ calls[1].caller = "lifespan"
          /\ calls[1].outcome = "returned"
    /\ \A i \in DOMAIN calls :
          calls[i].caller = "periodic" =>
              /\ task.st # "none"
              /\ i > 1
              /\ calls[i].begin >= task.created + Interval

\* a request was handled and the periodic task began its first refresh
\* exactly one interval after startup
C20_Witness ==
    /\ response.handler # "none"
    /\ Len(calls) = 2
    /\ calls[2].caller = "periodic"
    /\ calls[2].begin = task.created + Interval
    /\ calls[1].path = "cache"

====
